---- MODULE Spec2Model ----
(***************************************************************************)
(* A model of analyze_logs.py: analyze_log_file's extraction loop          *)
(* (re.finditer over sse_pattern, json.loads) and its classification of    *)
(* every decoded event into error_types, validation_errors,                *)
(* broken_messages and content_events.                                     *)
(*                                                                         *)
(* A Python str is a sequence of one-character strings.  A decoded JSON    *)
(* value is a record [t, v]: t is the Python type ("str", "num", "null",   *)
(* "bool", "arr", "obj") and v its content; a dict is the sequence of its   *)
(* [k, v] items in insertion order.                                        *)
(***************************************************************************)
EXTENDS Integers, Sequences, FiniteSets, TLC

VARIABLES
    content,            \* the text read from the log file (line 27)
    pos,                \* where re.finditer resumes its scan (line 33)
    pc,                 \* "scan": in the loop; "done": loop over; "raised": an
                        \* exception left analyze_log_file
    error_types,        \* Counter (line 20)
    validation_errors,  \* the two Counters of the defaultdict (line 21)
    broken_messages,    \* list (line 22)
    content_events,     \* list (line 23)
    spans,              \* history: the <<first, last>> index of every
                        \* match.group(1) handed to json.loads
    processed,          \* history: the events whose loop body ran to its end
    before              \* history: validation_errors as the loop body that
                        \* ran last found it

vars == <<content, pos, pc, error_types, validation_errors, broken_messages,
          content_events, spans, processed, before>>

----------------------------------------------------------------------------
(* Python str operations used by the code. *)

\* sub in s
Contains(s, sub) ==
    \E i \in 1..(Len(s) - Len(sub) + 1) : SubSeq(s, i, i + Len(sub) - 1) = sub

\* s.endswith(suffix)
EndsWith(s, suffix) ==
    /\ Len(s) >= Len(suffix)
    /\ SubSeq(s, Len(s) - Len(suffix) + 1, Len(s)) = suffix

\* s.find(sep): the first index at which sep occurs, 0 when it does not
Find(s, sep) ==
    LET hits == {i \in 1..(Len(s) - Len(sep) + 1) :
                    SubSeq(s, i, i + Len(sep) - 1) = sep}
    IN IF hits = {} THEN 0 ELSE CHOOSE i \in hits : \A j \in hits : i <= j

\* the sequences of ss, one after the other
Concat(ss) ==
    LET f[lo \in 1..(Len(ss) + 1), hi \in 0..Len(ss)] ==
            IF lo > hi THEN <<>>
            ELSE IF lo = hi THEN ss[lo]
            ELSE LET mid == (lo + hi) \div 2 IN f[lo, mid] \o f[mid + 1, hi]
    IN f[1, Len(ss)]

\* sep.join(parts)
Join(parts, sep) ==
    Concat([i \in 1..Len(parts) |->
                IF i = 1 THEN parts[i] ELSE sep \o parts[i]])

\* s.split(sep), sep not empty
RECURSIVE Split(_, _)
Split(s, sep) ==
    LET i == Find(s, sep)
    IN IF i = 0 THEN <<s>>
       ELSE <<SubSeq(s, 1, i - 1)>> \o Split(SubSeq(s, i + Len(sep), Len(s)), sep)

----------------------------------------------------------------------------
(* sse_pattern (line 31) under re's backtracking search.  A matcher maps a  *)
(* position of the text to the sequence of positions at which it can stop, *)
(* in the order the backtracking engine tries them (greedy: longest        *)
(* first); a match is the first way through the whole pattern.             *)

Marker ==
    <<"d", "a", "t", "a", ":", " ">>

\* the first of the tries, in order, that matches: where it ends, <<>>
\* when none does.  tries[n] is what the rest of the pattern does from the
\* n-th position at which the part before it can stop
First(tries) ==
    IF \E n \in DOMAIN tries : tries[n] # <<>>
    THEN tries[CHOOSE n \in DOMAIN tries :
                    tries[n] # <<>> /\ \A m \in 1..(n - 1) : tries[m] = <<>>]
    ELSE <<>>

\* the literal character c
Lit(t, p, c) ==
    IF p <= Len(t) /\ t[p] = c THEN <<p + 1>> ELSE <<>>

OpenBrace(t, p) == Lit(t, p, "{")

CloseBrace(t, p) == Lit(t, p, "}")

\* the literal "data: "
MarkerAt(t, p) ==
    IF p + Len(Marker) - 1 <= Len(t) /\ SubSeq(t, p, p + Len(Marker) - 1) = Marker
    THEN <<p + Len(Marker)>>
    ELSE <<>>

\* the length of the longest run of [^}] characters from p
Run(t, p) ==
    LET stops == {i \in p..Len(t) : t[i] = "}"}
    IN IF stops = {} THEN Len(t) + 1 - p
       ELSE (CHOOSE i \in stops : \A j \in stops : i <= j) - p

\* [^}]* : every run length from the longest down to zero
NotBraceStar(t, p) ==
    LET r == Run(t, p) IN [k \in 1..(r + 1) |-> p + r + 1 - k]

\* .+ in the place of [^}]+ : the class also takes a closing brace
NotBracePlus_AnyChar(t, p) ==
    [k \in 1..(Len(t) + 1 - p) |-> Len(t) + 2 - k]

\* [^}]+ : every run length from the longest down to one
NotBracePlus(t, p) ==
    LET r == Run(t, p) IN [k \in 1..r |-> p + r + 1 - k]

\* \{[^}]*\} : the positions after one group that starts at p
Group(t, p) ==
    LET inner == IF OpenBrace(t, p) = <<>> THEN <<>>
                 ELSE NotBraceStar(t, p + 1)
        closed == SelectSeq(inner, LAMBDA q : CloseBrace(t, q) # <<>>)
    IN [n \in 1..Len(closed) |-> closed[n] + 1]

\* [^}]*\} from p, the pattern's end
Closing(t, p) ==
    LET ps == NotBraceStar(t, p)
    IN First([n \in 1..Len(ps) |-> CloseBrace(t, ps[n])])

\* (?:\{[^}]*\})*[^}]*\} from p: one more group first, then none
RECURSIVE Groups(_, _)
Groups(t, p) ==
    LET ps == Group(t, p)
        more == First([n \in 1..Len(ps) |-> Groups(t, ps[n])])
    IN IF more # <<>> THEN more ELSE Closing(t, p)

\* [^}]+(?:\{[^}]*\})*[^}]*\} from p
Inside(t, p) ==
    LET ps == NotBracePlus(t, p)
    IN First([n \in 1..Len(ps) |-> Groups(t, ps[n])])

\* \{[^}]+(?:\{[^}]*\})*[^}]*\} from p
Object(t, p) ==
    LET ps == OpenBrace(t, p)
    IN First([n \in 1..Len(ps) |-> Inside(t, ps[n])])

\* data: (\{[^}]+(?:\{[^}]*\})*[^}]*\}) tried at position p: <<the position
\* after the match>>, <<>> when the pattern does not match there
sse_pattern(t, p) ==
    LET ps == MarkerAt(t, p)
    IN First([n \in 1..Len(ps) |-> Object(t, ps[n])])

\* re.finditer's next match when the scan resumes at position from: the
\* leftmost position at which the pattern matches.  [found, start, end]:
\* the match is t[start..end-1] and group(1) is t[start+6..end-1]
finditer(t, from) ==
    LET hit(p) == sse_pattern(t, p) # <<>>
    IN IF \E p \in from..Len(t) : hit(p)
       THEN LET p == CHOOSE q \in from..Len(t) :
                        hit(q) /\ \A r \in from..(q - 1) : ~hit(r)
            IN [found |-> TRUE, start |-> p, end |-> Head(sse_pattern(t, p))]
       ELSE [found |-> FALSE, start |-> 0, end |-> 0]

----------------------------------------------------------------------------
(* Decoded JSON values and Python's operations on them. *)

JStr(s) == [t |-> "str", v |-> s]

JNum(n) == [t |-> "num", v |-> n]

JNull == [t |-> "null", v |-> 0]

JBool(b) == [t |-> "bool", v |-> b]

JArr(xs) == [t |-> "arr", v |-> xs]

JObj(items) == [t |-> "obj", v |-> items]

\* x == 'literal' for a str literal
IsStr(x, s) == x.t = "str" /\ x.v = s

\* d[key] = value on a dict's items: a key already there keeps its place
DictSet(items, key, value) ==
    IF \E i \in 1..Len(items) : items[i].k = key
    THEN [i \in 1..Len(items) |->
            IF items[i].k = key THEN [k |-> key, v |-> value] ELSE items[i]]
    ELSE Append(items, [k |-> key, v |-> value])

\* d.get(key, default) on a dict
DictGet(d, key, default) ==
    IF \E i \in 1..Len(d.v) : d.v[i].k = key
    THEN d.v[CHOOSE i \in 1..Len(d.v) : d.v[i].k = key].v
    ELSE default

\* bool(x)
Truthy(x) ==
    CASE x.t = "str" -> x.v # <<>>
      [] x.t = "num" -> x.v # 0
      [] x.t = "null" -> FALSE
      [] x.t = "bool" -> x.v
      [] x.t = "arr" -> x.v # <<>>
      [] x.t = "obj" -> x.v # <<>>

----------------------------------------------------------------------------
(* json.loads (line 36): the standard decoder on the characters the log    *)
(* texts of this model are made of.  Not decoded, because no text here     *)
(* holds them: \b and \uXXXX escapes, fractions and exponents, NaN and     *)
(* Infinity.                                                               *)

Whitespace == {" ", "\t", "\n", "\r"}

Digits == {"0", "1", "2", "3", "4", "5", "6", "7", "8", "9"}

DigitVal(c) ==
    CASE c = "0" -> 0 [] c = "1" -> 1 [] c = "2" -> 2 [] c = "3" -> 3
      [] c = "4" -> 4 [] c = "5" -> 5 [] c = "6" -> 6 [] c = "7" -> 7
      [] c = "8" -> 8 [] c = "9" -> 9

\* what a backslash escape decodes to
Unescape(c) ==
    CASE c = "\"" -> "\"" [] c = "\\" -> "\\" [] c = "/" -> "/"
      [] c = "n" -> "\n" [] c = "t" -> "\t" [] c = "r" -> "\r"
      [] c = "f" -> "\f"

Escapable == {"\"", "\\", "/", "n", "t", "r", "f"}

\* a decoding step's outcome: the value and the position after it, or the
\* JSONDecodeError
Decoded(value, p) == [ok |-> TRUE, val |-> value, pos |-> p]

JSONDecodeError == [ok |-> FALSE, val |-> JNull, pos |-> 0]

RECURSIVE SkipWs(_, _)
SkipWs(s, i) ==
    IF i <= Len(s) /\ s[i] \in Whitespace THEN SkipWs(s, i + 1) ELSE i

\* a string's characters from position i, just after its opening quote, as
\* py_scanstring reads them: the chunk up to the next quote, backslash or
\* control character, then that terminator (strict mode: a raw control
\* character is an error)
RECURSIVE ScanString(_, _, _)
ScanString(s, i, acc) ==
    LET ends == {j \in i..Len(s) : s[j] \in {"\"", "\\", "\n", "\t", "\r", "\f"}}
    IN IF ends = {} THEN JSONDecodeError
       ELSE LET j == CHOOSE a \in ends : \A b \in ends : a <= b
                chunk == acc \o SubSeq(s, i, j - 1)
            IN IF s[j] = "\"" THEN Decoded(JStr(chunk), j + 1)
               ELSE IF s[j] # "\\" THEN JSONDecodeError
               ELSE IF j + 1 <= Len(s) /\ s[j + 1] \in Escapable
               THEN ScanString(s, j + 2, Append(chunk, Unescape(s[j + 1])))
               ELSE JSONDecodeError

RECURSIVE ScanDigits(_, _, _)
ScanDigits(s, i, n) ==
    IF i <= Len(s) /\ s[i] \in Digits
    THEN ScanDigits(s, i + 1, 10 * n + DigitVal(s[i]))
    ELSE [val |-> n, pos |-> i]

\* -?(0|[1-9][0-9]*)
ScanNumber(s, i) ==
    LET neg == s[i] = "-"
        j == IF neg THEN i + 1 ELSE i
    IN IF j > Len(s) \/ s[j] \notin Digits THEN JSONDecodeError
       ELSE IF s[j] = "0" THEN Decoded(JNum(0), j + 1)
       ELSE LET d == ScanDigits(s, j, 0)
            IN Decoded(JNum(IF neg THEN 0 - d.val ELSE d.val), d.pos)

\* the literal lit at position i
Literal(s, i, lit, value) ==
    IF i + Len(lit) - 1 <= Len(s) /\ SubSeq(s, i, i + Len(lit) - 1) = lit
    THEN Decoded(value, i + Len(lit))
    ELSE JSONDecodeError

RECURSIVE ScanValue(_, _)
RECURSIVE ScanMembers(_, _, _)
RECURSIVE ScanElements(_, _, _)

\* an object's members from position i, where a key's opening quote must be
ScanMembers(s, i, items) ==
    IF i > Len(s) \/ s[i] # "\"" THEN JSONDecodeError
    ELSE LET key == ScanString(s, i + 1, <<>>)
         IN IF ~key.ok THEN JSONDecodeError
            ELSE LET c == SkipWs(s, key.pos)
                 IN IF c > Len(s) \/ s[c] # ":" THEN JSONDecodeError
                    ELSE LET value == ScanValue(s, SkipWs(s, c + 1))
                         IN IF ~value.ok THEN JSONDecodeError
                            ELSE LET e == SkipWs(s, value.pos)
                                     d == DictSet(items, key.val.v, value.val)
                                 IN IF e > Len(s) THEN JSONDecodeError
                                    ELSE IF s[e] = "}" THEN Decoded(JObj(d), e + 1)
                                    ELSE IF s[e] = ","
                                    THEN ScanMembers(s, SkipWs(s, e + 1), d)
                                    ELSE JSONDecodeError

\* an array's elements from position i, where a value must start
ScanElements(s, i, xs) ==
    LET value == ScanValue(s, i)
    IN IF ~value.ok THEN JSONDecodeError
       ELSE LET e == SkipWs(s, value.pos)
                ys == Append(xs, value.val)
            IN IF e > Len(s) THEN JSONDecodeError
               ELSE IF s[e] = "]" THEN Decoded(JArr(ys), e + 1)
               ELSE IF s[e] = "," THEN ScanElements(s, SkipWs(s, e + 1), ys)
               ELSE JSONDecodeError

\* the value that starts at position i
ScanValue(s, i) ==
    IF i > Len(s) THEN JSONDecodeError
    ELSE IF s[i] = "\"" THEN ScanString(s, i + 1, <<>>)
    ELSE IF s[i] = "{" THEN
        LET j == SkipWs(s, i + 1)
        IN IF j <= Len(s) /\ s[j] = "}" THEN Decoded(JObj(<<>>), j + 1)
           ELSE ScanMembers(s, j, <<>>)
    ELSE IF s[i] = "[" THEN
        LET j == SkipWs(s, i + 1)
        IN IF j <= Len(s) /\ s[j] = "]" THEN Decoded(JArr(<<>>), j + 1)
           ELSE ScanElements(s, j, <<>>)
    ELSE IF s[i] = "n" THEN Literal(s, i, <<"n", "u", "l", "l">>, JNull)
    ELSE IF s[i] = "t" THEN Literal(s, i, <<"t", "r", "u", "e">>, JBool(TRUE))
    ELSE IF s[i] = "f"
    THEN Literal(s, i, <<"f", "a", "l", "s", "e">>, JBool(FALSE))
    ELSE IF s[i] = "-" \/ s[i] \in Digits THEN ScanNumber(s, i)
    ELSE JSONDecodeError

\* json.loads(s): one value, whitespace around it, nothing after it
json_loads(s) ==
    LET r == ScanValue(s, SkipWs(s, 1))
    IN IF r.ok /\ SkipWs(s, r.pos) = Len(s) + 1 THEN r ELSE JSONDecodeError

----------------------------------------------------------------------------
(* str() and repr() of a decoded value (line 51). *)

RECURSIVE Decimal(_)
Decimal(n) ==
    LET digit == <<"0", "1", "2", "3", "4", "5", "6", "7", "8", "9">>
    IN IF n < 0 THEN <<"-">> \o Decimal(0 - n)
       ELSE IF n < 10 THEN <<digit[n + 1]>>
       ELSE Decimal(n \div 10) \o <<digit[(n % 10) + 1]>>

\* repr of a str: single quotes, unless it holds one and no double quote
ReprStr(s) ==
    LET single == \E i \in 1..Len(s) : s[i] = "'"
        double == \E i \in 1..Len(s) : s[i] = "\""
        quote == IF single /\ ~double THEN "\"" ELSE "'"
        esc(c) == CASE c = "\\" -> <<"\\", "\\">>
                    [] c = quote -> <<"\\", c>>
                    [] c = "\n" -> <<"\\", "n">>
                    [] c = "\t" -> <<"\\", "t">>
                    [] c = "\r" -> <<"\\", "r">>
                    [] c = "\f" -> <<"\\", "x", "0", "c">>
                    [] OTHER -> <<c>>
    IN <<quote>> \o Join([i \in 1..Len(s) |-> esc(s[i])], <<>>) \o <<quote>>

RECURSIVE Repr(_)
Repr(x) ==
    CASE x.t = "str" -> ReprStr(x.v)
      [] x.t = "num" -> Decimal(x.v)
      [] x.t = "null" -> <<"N", "o", "n", "e">>
      [] x.t = "bool" -> IF x.v THEN <<"T", "r", "u", "e">>
                                ELSE <<"F", "a", "l", "s", "e">>
      [] x.t = "arr" ->
            <<"[">> \o Join([i \in 1..Len(x.v) |-> Repr(x.v[i])], <<",", " ">>)
                \o <<"]">>
      [] x.t = "obj" ->
            <<"{">> \o Join([i \in 1..Len(x.v) |->
                                ReprStr(x.v[i].k) \o <<":", " ">> \o Repr(x.v[i].v)],
                            <<",", " ">>)
                \o <<"}">>

\* str(x)
Str(x) == IF x.t = "str" THEN x.v ELSE Repr(x)

----------------------------------------------------------------------------
(* The loop body, lines 38-70: what one decoded event does to the four     *)
(* accumulators. *)

S_type == <<"t", "y", "p", "e">>

S_data == <<"d", "a", "t", "a">>

S_level == <<"l", "e", "v", "e", "l">>

S_message == <<"m", "e", "s", "s", "a", "g", "e">>

S_error == <<"e", "r", "r", "o", "r">>

S_unknown == <<"u", "n", "k", "n", "o", "w", "n">>

S_log == <<"l", "o", "g">>

S_content == <<"c", "o", "n", "t", "e", "n", "t">>

S_validation == <<"v", "a", "l", "i", "d", "a", "t", "i", "o", "n">>

S_invalid_type ==
    <<"i", "n", "v", "a", "l", "i", "d", "_", "t", "y", "p", "e">>

S_invalid_string ==
    <<"i", "n", "v", "a", "l", "i", "d", "_", "s", "t", "r", "i", "n", "g">>

\* Counter()
EmptyCounter == [k \in {} |-> 0]

\* counter[key], 0 for a key it does not hold
Count(counter, key) == IF key \in DOMAIN counter THEN counter[key] ELSE 0

\* counter[key] = 1 in the place of counter[key] += 1
Inc_Assign(counter, key) ==
    IF key \in DOMAIN counter
    THEN [counter EXCEPT ![key] = 1]
    ELSE counter @@ (key :> 1)

\* counter[key] += 1
Inc(counter, key) ==
    IF key \in DOMAIN counter
    THEN [counter EXCEPT ![key] = @ + 1]
    ELSE counter @@ (key :> 1)

\* message.split(']')[0], the bracket not appended again
ErrorKey_NoBracket(message) == Split(message, <<"]">>)[1]

\* message.split(']')[0] + ']' (line 48)
ErrorKey(message) == Split(message, <<"]">>)[1] \o <<"]">>

\* the backslash test left out
IsBroken_QuoteOnly(message) == EndsWith(message, <<"\"">>)

\* message.endswith('\"') or message.endswith('\\') (line 63)
IsBroken(message) ==
    EndsWith(message, <<"\"">>) \/ EndsWith(message, <<"\\">>)

\* 'literal' in x, for an x that supports it: a substring of a str, an
\* element of a list, a key of a dict
In(literal, x) ==
    CASE x.t = "str" -> Contains(x.v, literal)
      [] x.t = "arr" -> \E i \in 1..Len(x.v) : IsStr(x.v[i], literal)
      [] x.t = "obj" -> \E i \in 1..Len(x.v) : x.v[i].k = literal

\* the accumulators a run holds
Acc(et, ve, bm, ce) ==
    [error_types |-> et, validation_errors |-> ve, broken_messages |-> bm,
     content_events |-> ce, raised |-> FALSE]

\* an exception other than JSONDecodeError: it leaves the loop and the
\* function with the accumulators as they are
Raise(acc) == [acc EXCEPT !.raised = TRUE]

\* elif in the place of the second if
ZodErrors_Elif(acc, message, error_str) ==
    IF In(S_invalid_type, error_str)
    THEN [acc EXCEPT !.validation_errors.type_mismatches = Inc(@, message)]
    ELSE IF In(S_invalid_string, error_str)
    THEN [acc EXCEPT !.validation_errors.url_validation = Inc(@, message)]
    ELSE acc

\* lines 57-60: the two independent tests on error_str
ZodErrors(acc, message, error_str) ==
    LET a == IF In(S_invalid_type, error_str)
             THEN [acc EXCEPT !.validation_errors.type_mismatches =
                                    Inc(@, message)]
             ELSE acc
    IN IF In(S_invalid_string, error_str)
       THEN [a EXCEPT !.validation_errors.url_validation = Inc(@, message)]
       ELSE a

\* lines 51-60: the validation details of an error-level log event
ValidationDetails(acc, log_data, message) ==
    IF ~Contains(Str(DictGet(log_data, S_data, JStr(<<>>))), S_validation)
    THEN acc
    ELSE LET error_data == DictGet(log_data, S_data, JObj(<<>>))
         IN IF error_data.t # "obj" THEN acc
            ELSE LET error_str == DictGet(error_data, S_error, JStr(<<>>))
                 IN IF ~Truthy(error_str) THEN acc
                    ELSE IF error_str.t \in {"num", "bool"}
                    THEN Raise(acc)      \* TypeError: not iterable
                    ELSE ZodErrors(acc, message, error_str)

\* lines 62-64: the broken message check
BrokenMessage(acc, message) ==
    IF message.t # "str" THEN Raise(acc)     \* AttributeError: no endswith
    ELSE IF IsBroken(message.v)
    THEN [acc EXCEPT !.broken_messages = Append(@, message.v)]
    ELSE acc

\* lines 42-64: a log event
LogEvent(acc, event) ==
    LET log_data == DictGet(event, S_data, JObj(<<>>))
    IN IF log_data.t # "obj" THEN Raise(acc)     \* AttributeError: no get
       ELSE LET level == DictGet(log_data, S_level, JNull)
                message == DictGet(log_data, S_message, JStr(<<>>))
            IN IF IsStr(level, S_error)
               THEN IF message.t # "str"
                    THEN Raise(acc)              \* AttributeError: no split
                    ELSE LET a == [acc EXCEPT !.error_types =
                                                Inc(@, ErrorKey(message.v))]
                             b == ValidationDetails(a, log_data, message.v)
                         IN IF b.raised THEN b ELSE BrokenMessage(b, message)
               ELSE BrokenMessage(acc, message)

\* lines 67-70: a content event
ContentEvent(acc, event) ==
    LET content_data == DictGet(event, S_data, JStr(<<>>))
    IN IF Truthy(content_data)
       THEN [acc EXCEPT !.content_events = Append(@, content_data)]
       ELSE acc

\* lines 38-70: the loop body on a decoded event
Body(acc, event) ==
    IF event.t # "obj" THEN Raise(acc)          \* AttributeError: no get
    ELSE LET event_type == DictGet(event, S_type, JStr(S_unknown))
         IN IF IsStr(event_type, S_log) THEN LogEvent(acc, event)
            ELSE IF IsStr(event_type, S_content) THEN ContentEvent(acc, event)
            ELSE acc

----------------------------------------------------------------------------
(* The log texts of the end-to-end runs: every concatenation of at most   *)
(* MaxUnits of the units below, and the scenario text of the              *)
(* specification.                                                          *)

MaxUnits == 2

\* data: {"type":"content","data":"hi"}\n
U_content ==
    <<"d", "a", "t", "a", ":", " ", "{", "\"", "t", "y", "p", "e", "\"", ":",
      "\"", "c", "o", "n", "t", "e", "n", "t", "\"", ",", "\"", "d", "a",
      "t", "a", "\"", ":", "\"", "h", "i", "\"", "}", "\n">>

\* data: {"type":"content","data":5}\n
U_number ==
    <<"d", "a", "t", "a", ":", " ", "{", "\"", "t", "y", "p", "e", "\"", ":",
      "\"", "c", "o", "n", "t", "e", "n", "t", "\"", ",", "\"", "d", "a",
      "t", "a", "\"", ":", "5", "}", "\n">>

\* data: {"type":"content","data":""}\n
U_blank ==
    <<"d", "a", "t", "a", ":", " ", "{", "\"", "t", "y", "p", "e", "\"", ":",
      "\"", "c", "o", "n", "t", "e", "n", "t", "\"", ",", "\"", "d", "a",
      "t", "a", "\"", ":", "\"", "\"", "}", "\n">>

\* data: {"type":"log"}\n
U_log ==
    <<"d", "a", "t", "a", ":", " ", "{", "\"", "t", "y", "p", "e", "\"", ":",
      "\"", "l", "o", "g", "\"", "}", "\n">>

\* data: {"type":"ping"}\n
U_ping ==
    <<"d", "a", "t", "a", ":", " ", "{", "\"", "t", "y", "p", "e", "\"", ":",
      "\"", "p", "i", "n", "g", "\"", "}", "\n">>

\* data: {"type":"log","data":"x"}\n
U_shape ==
    <<"d", "a", "t", "a", ":", " ", "{", "\"", "t", "y", "p", "e", "\"", ":",
      "\"", "l", "o", "g", "\"", ",", "\"", "d", "a", "t", "a", "\"", ":",
      "\"", "x", "\"", "}", "\n">>

\* data: {"type":"log","data":{"level":"error","message":"m"}}\n
U_nested ==
    <<"d", "a", "t", "a", ":", " ", "{", "\"", "t", "y", "p", "e", "\"", ":",
      "\"", "l", "o", "g", "\"", ",", "\"", "d", "a", "t", "a", "\"", ":",
      "{", "\"", "l", "e", "v", "e", "l", "\"", ":", "\"", "e", "r", "r",
      "o", "r", "\"", ",", "\"", "m", "e", "s", "s", "a", "g", "e", "\"",
      ":", "\"", "m", "\"", "}", "}", "\n">>

\* data: {"type":"log","da
U_truncated ==
    <<"d", "a", "t", "a", ":", " ", "{", "\"", "t", "y", "p", "e", "\"", ":",
      "\"", "l", "o", "g", "\"", ",", "\"", "d", "a">>

\* data: {"type":"log", "data": {bad}\n
U_bad ==
    <<"d", "a", "t", "a", ":", " ", "{", "\"", "t", "y", "p", "e", "\"", ":",
      "\"", "l", "o", "g", "\"", ",", " ", "\"", "d", "a", "t", "a", "\"",
      ":", " ", "{", "b", "a", "d", "}", "\n">>

\* data: {}\n
U_empty ==
    <<"d", "a", "t", "a", ":", " ", "{", "}", "\n">>

\* data: {"type":"content","data":"a}b"}\n
U_brace ==
    <<"d", "a", "t", "a", ":", " ", "{", "\"", "t", "y", "p", "e", "\"", ":",
      "\"", "c", "o", "n", "t", "e", "n", "t", "\"", ",", "\"", "d", "a",
      "t", "a", "\"", ":", "\"", "a", "}", "b", "\"", "}", "\n">>

Units ==
    {U_content, U_number, U_blank, U_log, U_ping, U_shape, U_nested,
     U_truncated, U_bad, U_empty, U_brace}

\* data: {"type":"log","data":{"level":"error","message":"[API] failed","data":{"error":"invalid_type expected number"}}}
ScenarioText ==
    <<"d", "a", "t", "a", ":", " ", "{", "\"", "t", "y", "p", "e", "\"", ":",
      "\"", "l", "o", "g", "\"", ",", "\"", "d", "a", "t", "a", "\"", ":",
      "{", "\"", "l", "e", "v", "e", "l", "\"", ":", "\"", "e", "r", "r",
      "o", "r", "\"", ",", "\"", "m", "e", "s", "s", "a", "g", "e", "\"",
      ":", "\"", "[", "A", "P", "I", "]", " ", "f", "a", "i", "l", "e", "d",
      "\"", ",", "\"", "d", "a", "t", "a", "\"", ":", "{", "\"", "e", "r",
      "r", "o", "r", "\"", ":", "\"", "i", "n", "v", "a", "l", "i", "d", "_",
      "t", "y", "p", "e", " ", "e", "x", "p", "e", "c", "t", "e", "d", " ",
      "n", "u", "m", "b", "e", "r", "\"", "}", "}", "}">>

Texts ==
    {Concat(us) : us \in UNION {[1..n -> Units] : n \in 0..MaxUnits}}
        \cup {ScenarioText}

----------------------------------------------------------------------------
(* The decoded events of the classification runs: error-level log events  *)
(* of every message and nested data below, and events of other shapes.    *)

MaxEvents == 2

\* [API] failed
M_api ==
    <<"[", "A", "P", "I", "]", " ", "f", "a", "i", "l", "e", "d">>

\* a]b]"
M_twice ==
    <<"a", "]", "b", "]", "\"">>

\* x\
M_slash ==
    <<"x", "\\">>

\* validation invalid_type
E_type ==
    <<"v", "a", "l", "i", "d", "a", "t", "i", "o", "n", " ", "i", "n", "v",
      "a", "l", "i", "d", "_", "t", "y", "p", "e">>

\* invalid_string: validation
E_string ==
    <<"i", "n", "v", "a", "l", "i", "d", "_", "s", "t", "r", "i", "n", "g",
      ":", " ", "v", "a", "l", "i", "d", "a", "t", "i", "o", "n">>

\* validation: invalid_type, invalid_string
E_both ==
    <<"v", "a", "l", "i", "d", "a", "t", "i", "o", "n", ":", " ", "i", "n",
      "v", "a", "l", "i", "d", "_", "t", "y", "p", "e", ",", " ", "i", "n",
      "v", "a", "l", "i", "d", "_", "s", "t", "r", "i", "n", "g">>

\* invalid_type expected number
E_plain ==
    <<"i", "n", "v", "a", "l", "i", "d", "_", "t", "y", "p", "e", " ", "e",
      "x", "p", "e", "c", "t", "e", "d", " ", "n", "u", "m", "b", "e", "r">>

\* info
S_info ==
    <<"i", "n", "f", "o">>

\* ping
S_ping ==
    <<"p", "i", "n", "g">>

\* hi
S_hi ==
    <<"h", "i">>

Item(key, value) == [k |-> key, v |-> value]

\* {"error": error}
ErrorData(error) == JObj(<<Item(S_error, error)>>)

\* the messages that come with every nested data
Messages == <<M_api, M_twice>>

\* the nested data of the log events: none, the three validation errors, an
\* error that does not say "validation", an error that is no string
NestedData ==
    <<<<>>,
      <<Item(S_data, ErrorData(JStr(E_type)))>>,
      <<Item(S_data, ErrorData(JStr(E_string)))>>,
      <<Item(S_data, ErrorData(JStr(E_both)))>>,
      <<Item(S_data, ErrorData(JStr(E_plain)))>>,
      <<Item(S_data, JObj(<<Item(S_validation, JBool(TRUE)),
                            Item(S_error, JNum(5))>>))>>>>

\* {"type": "log", "data": {"level": level, "message": message, ...nested}}
LogOf(level, message, nested) ==
    JObj(<<Item(S_type, JStr(S_log)),
           Item(S_data, JObj(<<Item(S_level, level), Item(S_message, message)>>
                                \o nested))>>)

\* the error-level log events: every message with every nested data
ErrorLogs ==
    [n \in 1..(Len(Messages) * Len(NestedData)) |->
        LogOf(JStr(S_error),
              JStr(Messages[((n - 1) % Len(Messages)) + 1]),
              NestedData[((n - 1) \div Len(Messages)) + 1])]

\* the other log events: messages with no bracket, messages at another
\* level, a message that is no string, a payload that is no object
OtherLogs ==
    <<LogOf(JStr(S_error), JStr(M_slash), <<>>),
      LogOf(JStr(S_error), JStr(<<>>), NestedData[4]),
      LogOf(JStr(S_error), JNum(7), <<>>),
      LogOf(JStr(S_info), JStr(M_api), NestedData[4]),
      LogOf(JStr(S_info), JStr(M_slash), NestedData[4]),
      LogOf(JStr(S_info), JNum(7), <<>>),
      JObj(<<Item(S_type, JStr(S_log))>>),
      JObj(<<Item(S_type, JStr(S_log)), Item(S_data, JStr(S_hi))>>),
      JObj(<<Item(S_type, JStr(S_log)),
             Item(S_data, JObj(<<Item(S_message, JStr(M_twice))>>))>>)>>

\* the events of another type, or of none
OtherEvents ==
    <<JObj(<<Item(S_type, JStr(S_content)), Item(S_data, JStr(M_twice))>>),
      JObj(<<Item(S_type, JStr(S_content)), Item(S_data, JNum(5))>>),
      JObj(<<Item(S_type, JStr(S_content))>>),
      JObj(<<Item(S_type, JStr(S_ping)), Item(S_data, JStr(M_slash))>>),
      JObj(<<Item(S_data, JStr(S_hi))>>)>>

EventPool == ErrorLogs \o OtherLogs \o OtherEvents

----------------------------------------------------------------------------
(* analyze_log_file as a state machine: one action per outcome of a loop   *)
(* iteration (lines 33-73). *)

NoErrors == [type_mismatches |-> EmptyCounter, url_validation |-> EmptyCounter]

\* lines 20-23
InitAccumulators ==
    /\ error_types = EmptyCounter
    /\ validation_errors = NoErrors
    /\ broken_messages = <<>>
    /\ content_events = <<>>

\* a run over a log text
Init ==
    /\ content \in Texts
    /\ pos = 1
    /\ pc = "scan"
    /\ InitAccumulators
    /\ spans = <<>>
    /\ processed = <<>>
    /\ before = NoErrors

\* the accumulators now
Current == Acc(error_types, validation_errors, broken_messages, content_events)

\* the assignments the loop body made
Store(acc) ==
    /\ before' = validation_errors
    /\ error_types' = acc.error_types
    /\ validation_errors' = acc.validation_errors
    /\ broken_messages' = acc.broken_messages
    /\ content_events' = acc.content_events

\* match.group(1) (line 35)
event_json(m) == SubSeq(content, m.start + Len(Marker), m.end - 1)

\* the match is consumed: the scan resumes after it
Consume(m) ==
    /\ pos' = m.end
    /\ spans' = Append(spans, <<m.start + Len(Marker), m.end - 1>>)

\* lines 33-36, 72-73: the next match does not decode; continue
IterDecodeError ==
    /\ pc = "scan"
    /\ LET m == finditer(content, pos)
       IN /\ m.found
          /\ ~json_loads(event_json(m)).ok
          /\ Consume(m)
    /\ UNCHANGED <<content, pc, error_types, validation_errors,
                   broken_messages, content_events, processed, before>>

\* lines 33-70: the next match decodes and the loop body runs to its end
IterBody ==
    /\ pc = "scan"
    /\ LET m == finditer(content, pos)
           event == json_loads(event_json(m))
           acc == Body(Current, event.val)
       IN /\ m.found
          /\ event.ok
          /\ ~acc.raised
          /\ Consume(m)
          /\ Store(acc)
          /\ processed' = Append(processed, event.val)
    /\ UNCHANGED <<content, pc>>

\* lines 33-70: the next match decodes and the loop body raises what line 72
\* does not catch
IterRaise ==
    /\ pc = "scan"
    /\ LET m == finditer(content, pos)
           event == json_loads(event_json(m))
           acc == Body(Current, event.val)
       IN /\ m.found
          /\ event.ok
          /\ acc.raised
          /\ Consume(m)
          /\ Store(acc)
    /\ pc' = "raised"
    /\ UNCHANGED <<content, processed>>

\* line 33: no further match; the loop is over
LoopEnd ==
    /\ pc = "scan"
    /\ ~finditer(content, pos).found
    /\ pc' = "done"
    /\ UNCHANGED <<content, pos, error_types, validation_errors,
                   broken_messages, content_events, spans, processed, before>>

Next == IterDecodeError \/ IterBody \/ IterRaise \/ LoopEnd

Spec == Init /\ [][Next]_vars

----------------------------------------------------------------------------
(* The loop body alone, on a sequence of at most MaxEvents decoded events  *)
(* of EventPool. *)

InitClassify ==
    /\ content = <<>>
    /\ pos = 1
    /\ pc = "scan"
    /\ InitAccumulators
    /\ spans = <<>>
    /\ processed = <<>>
    /\ before = NoErrors

\* lines 38-70 run to their end on the next event
BodyReturns ==
    /\ pc = "scan"
    /\ Len(processed) < MaxEvents
    /\ \E n \in 1..Len(EventPool) :
          LET acc == Body(Current, EventPool[n])
          IN /\ ~acc.raised
             /\ Store(acc)
             /\ processed' = Append(processed, EventPool[n])
    /\ UNCHANGED <<content, pos, pc, spans>>

\* lines 38-70 raise on the next event
BodyRaises ==
    /\ pc = "scan"
    /\ Len(processed) < MaxEvents
    /\ \E n \in 1..Len(EventPool) :
          LET acc == Body(Current, EventPool[n])
          IN /\ acc.raised
             /\ Store(acc)
    /\ pc' = "raised"
    /\ UNCHANGED <<content, pos, spans, processed>>

\* no event is left
EventsEnd ==
    /\ pc = "scan"
    /\ pc' = "done"
    /\ UNCHANGED <<content, pos, error_types, validation_errors,
                   broken_messages, content_events, spans, processed, before>>

NextClassify == BodyReturns \/ BodyRaises \/ EventsEnd

SpecClassify == InitClassify /\ [][NextClassify]_vars

----------------------------------------------------------------------------
(* What the properties below say of an event, of a message and of a place  *)
(* in the text, stated apart from the loop body. *)

\* a decoded event of type "log" whose data is an object
IsLog(event) ==
    /\ IsStr(DictGet(event, S_type, JStr(S_unknown)), S_log)
    /\ DictGet(event, S_data, JObj(<<>>)).t = "obj"

\* the payload of a log event, and its fields
PayloadOf(event) == DictGet(event, S_data, JObj(<<>>))

LevelOf(event) == DictGet(PayloadOf(event), S_level, JNull)

MessageOf(event) == DictGet(PayloadOf(event), S_message, JStr(<<>>))

\* a log event with level == "error"
IsErrorLog(event) == IsLog(event) /\ IsStr(LevelOf(event), S_error)

\* the places in processed of the error-level log events
ErrorLogsProcessed ==
    {i \in 1..Len(processed) : IsErrorLog(processed[i])}

\* the sum of a Counter's counts
RECURSIVE SumOver(_, _)
SumOver(counter, keys) ==
    IF keys = {} THEN 0
    ELSE LET k == CHOOSE x \in keys : TRUE
         IN counter[k] + SumOver(counter, keys \ {k})

Total(counter) == SumOver(counter, DOMAIN counter)

\* the message up to and including its first "]"; with no "]" in it, the
\* whole message and a "]"
PrefixKey(message) ==
    IF \E i \in 1..Len(message) : message[i] = "]"
    THEN SubSeq(message, 1,
                CHOOSE i \in 1..Len(message) :
                    message[i] = "]" /\ \A j \in 1..(i - 1) : message[j] # "]")
    ELSE Append(message, "]")

\* the message's last character is a double quote or a backslash
EndsBroken(message) ==
    message # <<>> /\ message[Len(message)] \in {"\"", "\\"}

\* the number of characters c in text[first..last]
Occurrences(text, first, last, c) ==
    Cardinality({i \in first..last : text[i] = c})

\* the marker stands at position p of the log text
MarkerStands(p) ==
    /\ p + Len(Marker) <= Len(content)
    /\ SubSeq(content, p, p + Len(Marker) - 1) = Marker

\* the JSON value that starts right after the marker at p
ValueAfter(p) == ScanValue(content, p + Len(Marker))

\* the span of that value was handed to the decoder
Yielded(p) ==
    \E k \in 1..Len(spans) :
        spans[k] = <<p + Len(Marker), ValueAfter(p).pos - 1>>

----------------------------------------------------------------------------
(* C1: the run on the scenario text ends with ErrorTally["[API]"] == 1 and *)
(* ValidationBucket.type_mismatches["[API] failed"] == 1.                  *)
C1_Scenario ==
    (content = ScenarioText /\ pc = "done") =>
        /\ Count(error_types, PrefixKey(M_api)) = 1
        /\ Count(validation_errors.type_mismatches, M_api) = 1

(* C2: a marker followed by a well-formed JSON object that nests exactly   *)
(* one level deep (one inner brace pair) is matched from its opening brace *)
(* to its matching closing brace and yielded.                              *)
C2_NestedSpanYielded ==
    pc = "done" =>
        \A p \in 1..Len(content) :
            (/\ MarkerStands(p)
             /\ ValueAfter(p).ok
             /\ ValueAfter(p).val.t = "obj"
             /\ Occurrences(content, p + Len(Marker), ValueAfter(p).pos - 1, "{") = 2
             /\ Occurrences(content, p + Len(Marker), ValueAfter(p).pos - 1, "}") = 2)
            => Yielded(p)

(* C3: after a marker followed by malformed or truncated JSON, every       *)
(* well-formed event span (an object with a field and no nested brace)     *)
(* that starts at a later marker is still yielded.                         *)
C3_LaterSpansYielded ==
    pc = "done" =>
        \A p, q \in 1..Len(content) :
            (/\ p < q
             /\ MarkerStands(p) /\ ~ValueAfter(p).ok
             /\ MarkerStands(q) /\ ValueAfter(q).ok
             /\ ValueAfter(q).val.t = "obj" /\ ValueAfter(q).val.v # <<>>
             /\ Occurrences(content, q + Len(Marker), ValueAfter(q).pos - 1, "}") = 1)
            => Yielded(q)

(* C4: whatever the shape of a decoded event's fields, the loop body       *)
(* raises nothing to the caller.                                           *)
C4_NothingRaised == pc # "raised"

(* C5: after each event and at the end of the run, the sum of all          *)
(* ErrorTally counts equals the number of processed events with            *)
(* type == "log" and level == "error".                                     *)
C5_TallySum ==
    pc # "raised" => Total(error_types) = Cardinality(ErrorLogsProcessed)

\* two error-level events counted under one key
C5_Witness ==
    /\ pc = "done"
    /\ Cardinality(ErrorLogsProcessed) = 2
    /\ Cardinality(DOMAIN error_types) = 1

(* C6: BrokenMessageList holds, in encounter order and once per            *)
(* occurrence, the messages of the log events that end in a double quote   *)
(* or a backslash, whatever the level, and no other message.               *)
C6_BrokenMessages ==
    LET broken == SelectSeq(processed,
                            LAMBDA e : IsLog(e) /\ MessageOf(e).t = "str"
                                                /\ EndsBroken(MessageOf(e).v))
    IN broken_messages = [i \in 1..Len(broken) |-> MessageOf(broken[i]).v]

\* an info-level message ending in a backslash is captured after an
\* error-level one ending in a quote
C6_Witness ==
    /\ Len(processed) = 2
    /\ IsErrorLog(processed[1])
    /\ IsLog(processed[2]) /\ IsStr(LevelOf(processed[2]), S_info)
    /\ broken_messages = <<M_twice, M_slash>>

(* C7: every element of ContentEventList is a non-empty string: a content  *)
(* event whose data is a number, a list or a boolean appends nothing.      *)
C7_ContentStrings ==
    \A i \in 1..Len(content_events) :
        content_events[i].t = "str" /\ content_events[i].v # <<>>

(* C8: when the event processed last is an error-level log event whose     *)
(* nested data, stringified, contains "validation" and is an object with   *)
(* a string field error, type_mismatches[message] has grown by one if      *)
(* error contains invalid_type and url_validation[message] by one if it    *)
(* contains invalid_string, and neither has changed otherwise.             *)
C8_BothSubTallies ==
    (pc # "raised" /\ processed # <<>>) =>
        LET event == processed[Len(processed)]
            nested == DictGet(PayloadOf(event), S_data, JStr(<<>>))
            error == DictGet(nested, S_error, JStr(<<>>))
            message == MessageOf(event).v
            plus(hit) == IF hit THEN 1 ELSE 0
        IN (/\ IsErrorLog(event)
            /\ nested.t = "obj"
            /\ Contains(Str(nested), S_validation)
            /\ error.t = "str")
           => /\ Count(validation_errors.type_mismatches, message)
                    = Count(before.type_mismatches, message)
                        + plus(Contains(error.v, S_invalid_type))
              /\ Count(validation_errors.url_validation, message)
                    = Count(before.url_validation, message)
                        + plus(Contains(error.v, S_invalid_string))

\* two events with one message: one counted in both sub-tallies, the other
\* in url_validation only
C8_Witness ==
    /\ Len(processed) = 2
    /\ IsErrorLog(processed[1]) /\ IsErrorLog(processed[2])
    /\ Count(validation_errors.type_mismatches, M_api) = 1
    /\ Count(validation_errors.url_validation, M_api) = 2

(* C9: ErrorTally counts every processed error-level log event once, under *)
(* its message up to and including the first "]", or under the whole       *)
(* message with a "]" appended when it has none.                           *)
C9_PrefixKeys ==
    pc # "raised" =>
        LET keys == {PrefixKey(MessageOf(processed[i]).v) : i \in ErrorLogsProcessed}
            under(k) == {i \in ErrorLogsProcessed :
                            PrefixKey(MessageOf(processed[i]).v) = k}
        IN /\ DOMAIN error_types = keys
           /\ \A k \in keys : error_types[k] = Cardinality(under(k))

\* an empty message counted under "]" and one with two brackets under its
\* first
C9_Witness ==
    /\ pc = "done"
    /\ Count(error_types, <<"]">>) = 1
    /\ Count(error_types, <<"a", "]">>) = 1

====
